---- MODULE Spec2Model ----
(***************************************************************************)
(* Model of src/src/wg.rs: the UAPI client of the userspace WireGuard      *)
(* tunnel (connect_uapi / wait_path_exist, config_wg, check_wg_connection).*)
(* Strings are sequences of one-character strings, so that starts_with,    *)
(* contains, trim_end, split and parse are computed as the code computes   *)
(* them.                                                                   *)
(***************************************************************************)
EXTENDS Integers, Sequences, FiniteSets, TLC

\* ------------------------------------------------------------------ bounds
\* number of timer ticks after the consumed first one that the model follows
MaxTicks == 2
\* number of response lines one liveness tick may read without reaching a break
MaxReads == 2
\* size of a partial write the channel may accept in config_wg
Chunk == 60
\* clock resolution: the clock is counted in 1/SubSec seconds
SubSec == 2

\* ------------------------------------------------------- program constants
\* let mut count = 3;                                     (wait_path_exist)
PollBudget == 3
\* time::Duration::from_secs(5 * 60), in seconds
IntervalSecs == 300

\* ---------------------------------------------------------- string literals
KEY_HANDSHAKE == <<"l","a","s","t","_","h","a","n","d","s","h","a","k","e","_","t","i","m","e","_","s","e","c">>
ERRNO_OK == <<"e","r","r","n","o","=","0">>
GET_QUERY == <<"g","e","t","=","1","\n","\n">>
L_set == <<"s","e","t","=","1","\n">>
L_private_key == <<"p","r","i","v","a","t","e","_","k","e","y","=">>
L_replace_peers == <<"r","e","p","l","a","c","e","_","p","e","e","r","s","=","t","r","u","e","\n">>
L_public_key == <<"p","u","b","l","i","c","_","k","e","y","=">>
L_replace_allowed_ips == <<"r","e","p","l","a","c","e","_","a","l","l","o","w","e","d","_","i","p","s","=","t","r","u","e","\n">>
L_endpoint == <<"e","n","d","p","o","i","n","t","=">>
L_keepalive == <<"p","e","r","s","i","s","t","e","n","t","_","k","e","e","p","a","l","i","v","e","_","i","n","t","e","r","v","a","l","=","1","0","\n">>
L_allowed_ip == <<"a","l","l","o","w","e","d","_","i","p","=">>
L_address == <<"a","d","d","r","e","s","s","=">>
L_mtu == <<"m","t","u","=">>
L_up == <<"u","p","=","t","r","u","e","\n">>
L_route == <<"r","o","u","t","e","=">>
SLASH32 == <<"/","3","2">>
ERR_PREFIX == <<"u","a","p","i"," ","r","e","t","u","r","n","s"," ","u","n","e","x","p","e","c","t","e","d"," ","r","e","s","u","l","t",":"," ">>
NL == <<"\n">>

\* -------------------------------------------------------- string functions
\* str::starts_with
starts_with(s, p) ==
    /\ Len(p) <= Len(s)
    /\ SubSeq(s, 1, Len(p)) = p

\* str::contains
contains(s, p) ==
    \E i \in 0..(Len(s) - Len(p)) : SubSeq(s, i + 1, i + Len(p)) = p

\* the characters str::trim_end removes (White_Space), as far as they occur here
Whitespace == {" ", "\n", "\r", "\t"}

\* str::trim_end
RECURSIVE trim_end(_)
trim_end(s) ==
    IF s = <<>> THEN s
    ELSE IF s[Len(s)] \in Whitespace THEN trim_end(SubSeq(s, 1, Len(s) - 1))
    ELSE s

\* s.split('=').last().unwrap(): what follows the last '=', the whole of s if none
RECURSIVE split_last(_)
split_last(s) ==
    IF s = <<>> THEN s
    ELSE IF s[Len(s)] = "=" THEN <<>>
    ELSE split_last(SubSeq(s, 1, Len(s) - 1)) \o <<s[Len(s)]>>

Digits == {"0","1","2","3","4","5","6","7","8","9"}

DigitVal(c) ==
    CASE c = "0" -> 0 [] c = "1" -> 1 [] c = "2" -> 2 [] c = "3" -> 3
      [] c = "4" -> 4 [] c = "5" -> 5 [] c = "6" -> 6 [] c = "7" -> 7
      [] c = "8" -> 8 [] c = "9" -> 9

DigitChar(d) ==
    CASE d = 0 -> "0" [] d = 1 -> "1" [] d = 2 -> "2" [] d = 3 -> "3"
      [] d = 4 -> "4" [] d = 5 -> "5" [] d = 6 -> "6" [] d = 7 -> "7"
      [] d = 8 -> "8" [] d = 9 -> "9"

\* a digit string without its leading zeros (<<>> is the magnitude of zero)
RECURSIVE StripZeros(_)
StripZeros(d) ==
    IF d = <<>> THEN d
    ELSE IF d[1] = "0" THEN StripZeros(Tail(d))
    ELSE d

\* d < e for digit strings of the same length
RECURSIVE LexLess(_, _)
LexLess(d, e) ==
    IF d = <<>> THEN FALSE
    ELSE IF d[1] # e[1] THEN DigitVal(d[1]) < DigitVal(e[1])
    ELSE LexLess(Tail(d), Tail(e))

\* d <= e for magnitudes (digit strings without leading zeros)
MagLeq(d, e) ==
    \/ Len(d) < Len(e)
    \/ Len(d) = Len(e) /\ (d = e \/ LexLess(d, e))

\* i64::MAX and -i64::MIN as magnitudes
I64_MAX_MAG == <<"9","2","2","3","3","7","2","0","3","6","8","5","4","7","7","5","8","0","7">>
I64_MIN_MAG == <<"9","2","2","3","3","7","2","0","3","6","8","5","4","7","7","5","8","0","8">>

\* str::parse::<i64>: an optional sign, then at least one digit and digits
\* only, and the value must fit 64 bits.  The value is kept as a sign and a
\* magnitude, since it may exceed 32 bits, the width of TLC integers.
parse_i64(s) ==
    LET signed == s # <<>> /\ s[1] \in {"+", "-"}
        neg    == s # <<>> /\ s[1] = "-"
        body   == IF signed THEN Tail(s) ELSE s
        mag    == StripZeros(body)
        fits   == IF neg THEN MagLeq(mag, I64_MIN_MAG) ELSE MagLeq(mag, I64_MAX_MAG)
    IN  IF body # <<>> /\ (\A i \in 1..Len(body) : body[i] \in Digits) /\ fits
        THEN [ok |-> TRUE, neg |-> neg /\ mag # <<>>, mag |-> mag]
        ELSE [ok |-> FALSE, neg |-> FALSE, mag |-> <<>>]

\* the value of a magnitude
RECURSIVE MagVal(_)
MagVal(d) ==
    IF d = <<>> THEN 0
    ELSE 10 * MagVal(SubSeq(d, 1, Len(d) - 1)) + DigitVal(d[Len(d)])

\* the timestamp as an integer (for magnitudes of at most nine digits)
TimestampVal(p) == IF p.neg THEN 0 - MagVal(p.mag) ELSE MagVal(p.mag)

\* the seconds of NaiveDateTime::MAX and of NaiveDateTime::MIN, as magnitudes
NAIVE_MAX_MAG == <<"8","2","1","0","2","9","8","4","1","2","7","9","9">>
NAIVE_MIN_MAG == <<"8","3","3","4","6","3","2","8","5","1","2","0","0">>

\* chrono::NaiveDateTime::from_timestamp_opt(timestamp, 0).is_some()
from_timestamp_opt(p) ==
    IF p.neg THEN MagLeq(p.mag, NAIVE_MIN_MAG) ELSE MagLeq(p.mag, NAIVE_MAX_MAG)

\* format!("{}", n) of an unsigned integer
RECURSIVE ToDecimal(_)
ToDecimal(n) ==
    IF n < 10 THEN <<DigitChar(n)>>
    ELSE ToDecimal(n \div 10) \o <<DigitChar(n % 10)>>

\* ------------------------------------------------------------------ inputs
c_eq == <<"=">>

\* the value texts a last_handshake_time_sec line may carry
TimestampTexts ==
    { <<"0">>, <<"-","0">>, <<"6","9","9">>, <<"7","0","0">>, <<"7","0","1">>,
      <<"1","0","0","0">>, <<"1","0","0","1">>, <<"-","5">>,
      <<"a","b","c">>, <<>>, <<" ","7","0","0">>,
      <<"-","9","2","2","3","3","7","2","0","3","6","8","5","4","7","7","5","8","0","8">>,
      <<"9","2","2","3","3","7","2","0","3","6","8","5","4","7","7","5","8","0","8">> }

\* the lines read_line may deliver in a response to get=1: handshake lines
\* (ended by \n, by \r\n, or by the end of the stream), the key without a
\* value, another key=value line, the blank line, and the end of the stream
MonitorLines ==
    { KEY_HANDSHAKE \o c_eq \o v \o NL : v \in TimestampTexts }
    \cup { KEY_HANDSHAKE \o c_eq \o <<"6","9","9","\r","\n">>,
           KEY_HANDSHAKE \o c_eq \o <<"6","9","9">>,
           KEY_HANDSHAKE \o NL,
           <<"m","t","u","=","1","\n">>,
           NL,
           <<>> }

\* the first lines read_line may deliver in a response to set=1
ConfigLines ==
    { ERRNO_OK \o NL, ERRNO_OK, <<"x">> \o ERRNO_OK \o <<"1","\n">>,
      <<"e","r","r","n","o","=","1","\n">>, <<"e","r","r","n","o","=","\n">>,
      NL, <<>> }

\* the values chrono::Utc::now() may return, in 1/SubSec seconds
NowValues == {1000 * SubSec, 1000 * SubSec + 1}

\* the configurations handed to config_wg
Routes ==
    { <<>>,
      << <<"8",".","8",".","8",".","8">> >>,
      << <<"1","0",".","0",".","0",".","0","/","2","4">>, <<"8",".","8",".","8",".","8">>,
         <<"/">> >> }

Confs ==
    { [private_key |-> <<"A","A","E","C">>, peer_key |-> <<"/","/","8","A">>,
       peer_address |-> <<"h",":","1">>, address |-> <<"1","0",".","0",".","0",".","2">>,
       mask |-> m, mtu |-> 1280, route |-> r] : m \in {8, 24}, r \in Routes }

NoConf ==
    [private_key |-> <<>>, peer_key |-> <<>>, peer_address |-> <<>>, address |-> <<>>,
     mask |-> 0, mtu |-> 0, route |-> <<>>]

\* ------------------------------------------------- the request of config_wg
B64Alphabet ==
    <<"A","B","C","D","E","F","G","H","I","J","K","L","M","N","O","P",
      "Q","R","S","T","U","V","W","X","Y","Z","a","b","c","d","e","f",
      "g","h","i","j","k","l","m","n","o","p","q","r","s","t","u","v",
      "w","x","y","z","0","1","2","3","4","5","6","7","8","9","+","/">>

B64Val(c) == IF c = "=" THEN 0 ELSE (CHOOSE i \in 1..64 : B64Alphabet[i] = c) - 1

HexChars == <<"0","1","2","3","4","5","6","7","8","9","a","b","c","d","e","f">>

HexByte(b) == <<HexChars[(b \div 16) + 1], HexChars[(b % 16) + 1]>>

\* utils::b64_decode_to_hex: the bytes of a base64 text, two lowercase hex
\* digits each (one group of four characters gives up to three bytes)
RECURSIVE b64_decode_to_hex(_)
b64_decode_to_hex(k) ==
    IF Len(k) < 4 THEN <<>>
    ELSE LET v   == ((B64Val(k[1]) * 64 + B64Val(k[2])) * 64 + B64Val(k[3])) * 64 + B64Val(k[4])
             b1  == v \div 65536
             b2  == (v \div 256) % 256
             b3  == v % 256
             out == IF k[3] = "=" THEN HexByte(b1)
                    ELSE IF k[4] = "=" THEN HexByte(b1) \o HexByte(b2)
                    ELSE HexByte(b1) \o HexByte(b2) \o HexByte(b3)
         IN  out \o b64_decode_to_hex(SubSeq(k, 5, Len(k)))

\* /32 appended to every route
NormalizedRouteAlways(route) == route \o SLASH32

\* the route as config_wg writes it: /32 appended unless it contains a '/'
NormalizedRoute(route) ==
    IF contains(route, <<"/">>) THEN route ELSE route \o SLASH32

\* for route in &conf.route { buff.push_str("<key>=<route>\n") }
RECURSIVE RouteLines(_, _)
RouteLines(key, routes) ==
    IF routes = <<>> THEN <<>>
    ELSE key \o NormalizedRoute(Head(routes)) \o NL \o RouteLines(key, Tail(routes))

\* the buffer with up=true pushed before the address line
BuildBuffUpFirst(c) ==
    L_set
    \o L_private_key \o b64_decode_to_hex(c.private_key) \o NL
    \o L_replace_peers
    \o L_public_key \o b64_decode_to_hex(c.peer_key) \o NL
    \o L_replace_allowed_ips
    \o L_endpoint \o c.peer_address \o NL
    \o L_keepalive
    \o RouteLines(L_allowed_ip, c.route)
    \o L_up
    \o L_address \o c.address \o <<"/">> \o ToDecimal(c.mask) \o NL
    \o L_mtu \o ToDecimal(c.mtu) \o NL
    \o RouteLines(L_route, c.route)
    \o NL

\* the buffer config_wg builds from the configuration
BuildBuff(c) ==
    L_set
    \o L_private_key \o b64_decode_to_hex(c.private_key) \o NL
    \o L_replace_peers
    \o L_public_key \o b64_decode_to_hex(c.peer_key) \o NL
    \o L_replace_allowed_ips
    \o L_endpoint \o c.peer_address \o NL
    \o L_keepalive
    \o RouteLines(L_allowed_ip, c.route)
    \o L_address \o c.address \o <<"/">> \o ToDecimal(c.mask) \o NL
    \o L_mtu \o ToDecimal(c.mtu) \o NL
    \o L_up
    \o RouteLines(L_route, c.route)
    \o NL

\* ---------------------------------------------------- the liveness decision
\* the zero test left out: every timestamp is taken for a handshake time
IsZeroTimestampNever(p) == FALSE

\* timestamp == 0
IsZeroTimestamp(p) == p.mag = <<>>

\* now - nt, in 1/SubSec seconds
Elapsed(t_now, p) == t_now - TimestampVal(p) * SubSec

\* t.to_std().is_ok(): a negative chrono::Duration has no std::time::Duration
to_std_ok(t) == t >= 0

\* t > chrono::Duration::from_std(interval).unwrap()
ExceedsInterval(t) == t > IntervalSecs * SubSec

\* the parse result unwrapped instead of matched
OnParseErrUnwrap == "panic"

\* Err(err) => println!("parse last handshake of {} fail: {}", name, err), then break
OnParseErr == "break"

\* the Ok(timestamp) arm: "break" (timeout untouched), "timeout" (timeout =
\* true), or "panic" (an unwrap() of None / Err)
HandleTimestamp(p, t_now) ==
    IF IsZeroTimestamp(p) THEN "break"
    ELSE IF ~from_timestamp_opt(p) THEN "panic"
    ELSE IF ~to_std_ok(Elapsed(t_now, p)) THEN "panic"
    ELSE IF ExceedsInterval(Elapsed(t_now, p)) THEN "timeout"
    ELSE "break"

\* what one line of the response does to the tick: "more" (clear the line and
\* read on), or the tick ends with "break", "timeout" or "panic"
HandleLine(l, t_now) ==
    IF starts_with(l, KEY_HANDSHAKE)
    THEN LET p == parse_i64(split_last(trim_end(l)))
         IN  IF p.ok THEN HandleTimestamp(p, t_now) ELSE OnParseErr
    ELSE IF l = NL THEN "break"
    ELSE "more"

\* ------------------------------------------------------------- start_wg_go
ENV_KEY_PROTOCOL_VERSION == "CORPLINK_PROTOCOL_VERSION"
ENV_KEY_NETWORK_TYPE == "CORPLINK_NETWORK_TYPE"

\* the protocol number that selects the tcp network type (0xff)
PROTOCOL_TCP == 255

\* the arguments start_wg_go may be called with
ProtocolVersions == {"v2", "V2", ""}
Protocols == {PROTOCOL_TCP, 0, -1}

\* the entry inserted for protocol_version whatever it is
ProtocolVersionEnvAlways(protocol_version) == {<<ENV_KEY_PROTOCOL_VERSION, "v2">>}

\* match protocol_version { "v2" => envs.insert(..), _ => {} }
ProtocolVersionEnv(protocol_version) ==
    IF protocol_version = "v2" THEN {<<ENV_KEY_PROTOCOL_VERSION, "v2">>} ELSE {}

\* match protocol { 0xff => envs.insert(..), _ => {} }
NetworkTypeEnv(protocol) ==
    IF protocol = PROTOCOL_TCP THEN {<<ENV_KEY_NETWORK_TYPE, "tcp">>} ELSE {}

\* the streams given Stdio::null(): none if with_log, else stdout and stderr
NullStreams(with_log) == IF with_log THEN {} ELSE {"stdout", "stderr"}

\* no start_wg_go call to speak of
NoChild == [called |-> FALSE]

\* what one call of start_wg_go does (the build for unix: args are -f name):
\* the Command it builds, the number of spawn() calls, and what it returns
Launch(protocol, protocol_version, with_log, spawn_ok) ==
    [called |-> TRUE,
     protocol |-> protocol, protocol_version |-> protocol_version,
     with_log |-> with_log,
     args |-> <<"-f", "name">>,
     envs |-> ProtocolVersionEnv(protocol_version) \cup NetworkTypeEnv(protocol),
     null |-> NullStreams(with_log),
     spawns |-> 1,
     ret |-> IF spawn_ok THEN "Ok" ELSE "Err"]

\* ------------------------------------------------------------------- state
VARIABLES
    pc,       \* where the client's task stands (a suspension point, or an end)
    op,       \* the operation in progress or, once it returned, "none"; the last
              \* one if it was "start_wg_go", which returns at once
    pushes,   \* number of config_wg calls made
    conf,     \* config_wg's argument
    chans,    \* every channel Conn::connect returned, in order: [owner, open,
              \* requests (number of requests of which it has accepted bytes)]
    conn,     \* index in chans of the channel the running operation holds, 0 if none
    count,    \* wait_path_exist's count
    polls,    \* the results of Path::exists in the running connect_uapi call
    buff,     \* config_wg's buff
    data,     \* config_wg's data: the part of buff not yet accepted
    sent,     \* the bytes the held channel has accepted, in order
    s,        \* config_wg's s: the response line
    result,   \* config_wg's return value
    timeout,  \* check_wg_connection's timeout
    ticks,    \* number of ticker.tick() calls that have completed
    line,     \* check_wg_connection's line
    now,      \* the value chrono::Utc::now() returned in this tick, 0 if not called
    steps,    \* the steps of the running exchange (one push, or one tick), in order
    eof,      \* the response stream of the held channel: 0 while it has not ended,
              \* then 1 or 2, the parity of the read_line calls that returned Ok(0)
    child     \* what the last start_wg_go call did, until the next operation starts

vars == <<pc, op, pushes, conf, chans, conn, count, polls, buff, data, sent, s,
          result, timeout, ticks, line, now, steps, eof, child>>

\* number of config_wg calls the model follows
MaxPushes == 2

NoResult == [kind |-> "none", msg |-> <<>>]
OkResult == [kind |-> "Ok", msg |-> <<>>]
ErrResult(kind, msg) == [kind |-> kind, msg |-> msg]

Step(name, ok) == [step |-> name, ok |-> ok]

\* steps with one more step; the write loop's successive writes count once
AddStep(st, name, ok) ==
    IF st # <<>> /\ st[Len(st)] = Step(name, ok) /\ name = "write" THEN st
    ELSE Append(st, Step(name, ok))

NReads(st) == Cardinality({i \in 1..Len(st) : st[i].step = "read"})

\* the channel is dropped: closed
Closed(cs, i) == IF i = 0 THEN cs ELSE [cs EXCEPT ![i].open = FALSE]

Init ==
    /\ pc = "idle"
    /\ op = "none"
    /\ pushes = 0
    /\ conf = NoConf
    /\ chans = <<>>
    /\ conn = 0
    /\ count = 0
    /\ polls = <<>>
    /\ buff = <<>>
    /\ data = <<>>
    /\ sent = <<>>
    /\ s = <<>>
    /\ result = NoResult
    /\ timeout = FALSE
    /\ ticks = 0
    /\ line = <<>>
    /\ now = 0
    /\ steps = <<>>
    /\ eof = 0
    /\ child = NoChild

\* ---------------------------------------------------------------- start_wg_go
\* the caller invokes start_wg_go(cmd, name, protocol, protocol_version, with_log)
start_wg_go ==
    /\ pc = "idle"
    /\ \E protocol \in Protocols, protocol_version \in ProtocolVersions,
          with_log \in BOOLEAN, spawn_ok \in BOOLEAN :
          child' = Launch(protocol, protocol_version, with_log, spawn_ok)
    /\ op' = "start_wg_go"
    /\ buff' = <<>>
    /\ data' = <<>>
    /\ sent' = <<>>
    /\ s' = <<>>
    /\ result' = NoResult
    /\ steps' = <<>>
    /\ UNCHANGED <<pc, pushes, conf, chans, conn, count, polls, timeout, ticks, line,
                   now, eof>>

\* --------------------------------------------------------------- connect_uapi
\* connect_uapi is entered: wait_path_exist(&sock_path) starts with count = 3
EnterConnect ==
    /\ pc' = "wait_path_exist"
    /\ count' = PollBudget
    /\ polls' = <<>>

\* one more round once count has reached 0
PollAgainAtZero(c) == c >= 0

\* while count > 0, after count -= 1
PollAgain(c) == c > 0

\* one round of wait_path_exist's loop: the existence check, and when the path
\* is absent the sleep and count -= 1
wait_path_exist ==
    /\ pc = "wait_path_exist"
    /\ \E exists \in BOOLEAN :
        /\ polls' = Append(polls, exists)
        /\ IF exists
           THEN /\ count' = count
                /\ pc' = "connect"
           ELSE /\ count' = count - 1
                /\ pc' = IF PollAgain(count - 1) THEN "wait_path_exist" ELSE "connect"
    /\ UNCHANGED <<op, pushes, conf, chans, conn, buff, data, sent, s, result,
                   timeout, ticks, line, now, steps, eof, child>>

\* the monitor taking a failed connect for a failed tick and going on
AfterConnectErrRetry(caller) == IF caller = "config_wg" THEN "idle" ELSE "tick"

\* where a caller goes after connect_uapi failed: config_wg returns the error
\* (the ? operator), check_wg_connection logs it and returns
AfterConnectErr(caller) == IF caller = "config_wg" THEN "idle" ELSE "returned"

\* the last channel taken up again where there is one
OpenChannelReused(cs, owner) ==
    IF cs = <<>> THEN <<[owner |-> owner, open |-> TRUE, requests |-> 0]>>
    ELSE [cs EXCEPT ![Len(cs)] = [owner |-> owner, open |-> TRUE, requests |-> @.requests]]

\* the channel Conn::connect returns: a new one, owned by the caller
OpenChannel(cs, owner) == Append(cs, [owner |-> owner, open |-> TRUE, requests |-> 0])

\* Conn::connect(sock_path) with an outcome among oks, and what the caller does
\* with its result (wait_path_exist has returned: its count and polls are gone)
ConnectUapi(oks) ==
    /\ pc = "connect"
    /\ count' = 0
    /\ polls' = <<>>
    /\ eof' = 0
    /\ \E ok \in oks :
        /\ steps' = AddStep(steps, "connect", ok)
        /\ IF ok
           THEN /\ chans' = OpenChannel(chans, op)
                /\ conn' = Len(OpenChannel(chans, op))
                /\ sent' = <<>>
                /\ IF op = "config_wg"
                   THEN /\ buff' = BuildBuff(conf)
                        /\ data' = BuildBuff(conf)
                        /\ pc' = "config_write"
                   ELSE /\ pc' = "check_write"
                        /\ UNCHANGED <<buff, data>>
                /\ UNCHANGED <<result, conf>>
           ELSE /\ pc' = AfterConnectErr(op)
                /\ result' = IF op = "config_wg" THEN ErrResult("ConnectError", <<>>) ELSE result
                /\ conf' = NoConf
                /\ UNCHANGED <<chans, conn, sent, buff, data>>
    /\ UNCHANGED <<op, pushes, s, timeout, ticks, line, now, child>>

\* Conn::connect may succeed or fail
connect_uapi == ConnectUapi(BOOLEAN)

\* ------------------------------------------------------------------ config_wg
\* the caller invokes config_wg(conf): its first statement is connect_uapi()
config_wg_call ==
    /\ pc = "idle"
    /\ pushes < MaxPushes
    /\ \E c \in Confs : conf' = c
    /\ op' = "config_wg"
    /\ pushes' = pushes + 1
    /\ EnterConnect
    /\ buff' = <<>>
    /\ data' = <<>>
    /\ sent' = <<>>
    /\ s' = <<>>
    /\ result' = NoResult
    /\ steps' = <<>>
    /\ child' = NoChild
    /\ UNCHANGED <<chans, conn, timeout, ticks, line, now, eof>>

\* config_wg returns r: its locals, the channel among them, are dropped
ConfigReturn(r) ==
    /\ result' = r
    /\ pc' = "idle"
    /\ op' = "none"
    /\ chans' = Closed(chans, conn)
    /\ conn' = 0
    /\ conf' = NoConf

\* the byte counts conn.write(data) may return
WriteSizes(d) == {n \in {0, 1, Chunk, Len(d)} : n <= Len(d)}

\* data advanced by one byte less than was accepted
AfterWriteShort(d, n) == SubSeq(d, n, Len(d))

\* Ok(n) if n > 0 => data = &data[n..]
AfterWrite(d, n) == SubSeq(d, n + 1, Len(d))

\* the write loop goes on: Ok(n) with n > 0 and !data.is_empty()
WriteLoopContinues(d, n) == n > 0 /\ AfterWrite(d, n) # <<>>

\* one conn.write(data) of the while !data.is_empty() loop
config_write ==
    /\ pc = "config_write"
    /\ \/ \* Err(err) => return Err(err)
          /\ steps' = AddStep(steps, "write", FALSE)
          /\ ConfigReturn(ErrResult("WriteError", <<>>))
          /\ UNCHANGED <<data, sent>>
       \/ \* Ok(n): n > 0 advances data, n = 0 breaks out of the loop
          \E n \in WriteSizes(data) :
            /\ steps' = AddStep(steps, IF n > 0 THEN "write" ELSE "write0", TRUE)
            /\ sent' = sent \o SubSeq(data, 1, n)
            /\ data' = IF n > 0 THEN AfterWrite(data, n) ELSE data
            /\ chans' = [chans EXCEPT ![conn].requests =
                            IF sent = <<>> /\ n > 0 THEN @ + 1 ELSE @]
            /\ pc' = IF WriteLoopContinues(data, n) THEN "config_write" ELSE "config_flush"
            /\ UNCHANGED <<result, op, conn, conf>>
    /\ UNCHANGED <<pushes, count, polls, buff, s, timeout, ticks, line, now, eof, child>>

\* the flush result dropped instead of propagated
AfterFlushIgnored(ok) == "config_read"

\* where config_wg goes after conn.flush().await?: on, or back to the caller
AfterFlush(ok) == IF ok THEN "config_read" ELSE "idle"

\* conn.flush().await?
config_flush ==
    /\ pc = "config_flush"
    /\ \E ok \in BOOLEAN :
        /\ steps' = AddStep(steps, "flush", ok)
        /\ IF AfterFlush(ok) = "idle"
           THEN ConfigReturn(ErrResult("FlushError", <<>>))
           ELSE /\ pc' = AfterFlush(ok)
                /\ UNCHANGED <<result, op, chans, conn, conf>>
    /\ UNCHANGED <<pushes, count, polls, buff, data, sent, s, timeout, ticks, line, now,
                   eof, child>>

\* the response tested for the prefix errno=0 instead of the substring
ErrnoCheckPrefix(resp) ==
    IF ~starts_with(resp, ERRNO_OK) THEN ErrResult("UnexpectedEof", ERR_PREFIX \o resp)
    ELSE OkResult

\* if !s.contains("errno=0") { Err(UnexpectedEof, "uapi returns unexpected result: {s}") } else Ok(())
ErrnoCheck(resp) ==
    IF ~contains(resp, ERRNO_OK) THEN ErrResult("UnexpectedEof", ERR_PREFIX \o resp)
    ELSE OkResult

\* reader.read_line(&mut s), then the errno check and the return
config_read ==
    /\ pc = "config_read"
    /\ \/ \* Err(err) => return Err(err)
          /\ steps' = AddStep(steps, "read", FALSE)
          /\ ConfigReturn(ErrResult("ReadError", <<>>))
          /\ s' = s
       \/ \E l \in ConfigLines :
            /\ steps' = AddStep(AddStep(steps, "read", TRUE), "errno_check", TRUE)
            /\ s' = l
            /\ ConfigReturn(ErrnoCheck(l))
    /\ UNCHANGED <<pushes, count, polls, buff, data, sent, timeout, ticks, line, now,
                   eof, child>>

\* ---------------------------------------------------------- check_wg_connection
\* the first tick awaited inside the loop: the line before the loop left out
AfterCallNoFirstTick == "tick"

\* where check_wg_connection stands once the ticker is made: at the
\* ticker.tick().await before the loop
AfterCall == "first_tick"

\* the caller invokes check_wg_connection(): timeout = false, the ticker is made
check_wg_connection_call ==
    /\ pc = "idle"
    /\ op' = "check_wg_connection"
    /\ pc' = AfterCall
    /\ child' = NoChild
    /\ timeout' = FALSE
    /\ ticks' = 0
    /\ buff' = <<>>
    /\ data' = <<>>
    /\ sent' = <<>>
    /\ s' = <<>>
    /\ result' = NoResult
    /\ steps' = <<>>
    /\ polls' = <<>>
    /\ count' = 0
    /\ UNCHANGED <<pushes, conf, chans, conn, line, now, eof>>

\* consume the first tick
first_tick ==
    /\ pc = "first_tick"
    /\ ticks' = ticks + 1
    /\ pc' = "tick"
    /\ UNCHANGED <<op, pushes, conf, chans, conn, count, polls, buff, data, sent, s,
                   result, timeout, line, now, steps, eof, child>>

\* ticker.tick().await at the head of the loop body, then connect_uapi() is entered
tick ==
    /\ pc = "tick"
    /\ ticks <= MaxTicks
    /\ ticks' = ticks + 1
    /\ EnterConnect
    /\ steps' = <<>>
    /\ sent' = <<>>
    /\ line' = <<>>
    /\ now' = 0
    /\ eof' = 0
    /\ UNCHANGED <<op, pushes, conf, chans, conn, buff, data, s, result, timeout, child>>

\* while !timeout, evaluated when the loop body has ended
LoopNext(to) == IF to THEN "returned" ELSE "tick"

\* the loop body ends: the channel (inside reader) is dropped
EndTick(to) ==
    /\ timeout' = to
    /\ pc' = LoopNext(to)
    /\ chans' = Closed(chans, conn)
    /\ conn' = 0

\* the byte counts conn.write(b"get=1\n\n") may return
QuerySizes == {0, 3, Len(GET_QUERY)}

\* where the tick goes after conn.write: Ok(_) => {}, Err(err) => println!(..)
AfterQuery(ok) == "check_read"

\* conn.write(b"get=1\n\n"), then line = String::new() and the reader
check_write ==
    /\ pc = "check_write"
    /\ \/ /\ steps' = AddStep(steps, "write", FALSE)
          /\ pc' = AfterQuery(FALSE)
          /\ UNCHANGED <<sent, chans>>
       \/ \E n \in QuerySizes :
            /\ steps' = AddStep(steps, "write", TRUE)
            /\ sent' = SubSeq(GET_QUERY, 1, n)
            /\ chans' = [chans EXCEPT ![conn].requests = IF n > 0 THEN @ + 1 ELSE @]
            /\ pc' = AfterQuery(TRUE)
    /\ line' = <<>>
    /\ UNCHANGED <<op, pushes, conf, conn, count, polls, buff, data, s, result,
                   timeout, ticks, now, eof, child>>

\* whether handling line l reaches chrono::Utc::now()
ReadsClock(l) ==
    /\ starts_with(l, KEY_HANDSHAKE)
    /\ LET p == parse_i64(split_last(trim_end(l)))
       IN  p.ok /\ ~IsZeroTimestamp(p) /\ from_timestamp_opt(p)

\* a return in place of the break
AfterReadErrReturn(to) == "returned"

\* where the tick goes after read_line failed: println!(..); break
AfterReadErr(to) == LoopNext(to)

\* the parity of the Ok(0) reads after one more of them
NextEof(e) == IF e = 1 THEN 2 ELSE 1

\* one reader.read_line(&mut line) of the inner loop, and the handling of its
\* result; the stream delivers a line among lines unless it has ended, and
\* the read may fail if errs
CheckRead(lines, errs) ==
    /\ pc = "check_read"
    /\ \/ \* Err(err) => { println!(..); break }
          /\ errs
          /\ eof = 0
          /\ steps' = AddStep(steps, "read", FALSE)
          /\ timeout' = timeout
          /\ pc' = AfterReadErr(timeout)
          /\ chans' = Closed(chans, conn)
          /\ conn' = 0
          /\ UNCHANGED <<line, now, eof>>
       \/ \* Ok(0) once more: the stream has ended, line stays empty, and the
          \* inner loop clears it and reads again
          /\ eof # 0
          /\ eof' = NextEof(eof)
          /\ UNCHANGED <<pc, timeout, chans, conn, line, now, steps>>
       \/ \E l \in lines :
          \E t \in (IF ReadsClock(l) THEN NowValues ELSE {now}) :
            LET h == HandleLine(l, t) IN
            /\ eof = 0
            /\ (h = "more" /\ l # <<>>) => NReads(steps) < MaxReads
            /\ steps' = Append(steps, Step("read", TRUE))
            /\ now' = t
            /\ eof' = IF l = <<>> THEN 1 ELSE 0
            /\ CASE h = "more" ->
                      \* line.clear(), and the inner loop reads again
                      /\ line' = <<>>
                      /\ UNCHANGED <<pc, timeout, chans, conn>>
                 [] h = "break" ->
                      /\ line' = l
                      /\ EndTick(timeout)
                 [] h = "timeout" ->
                      /\ line' = l
                      /\ EndTick(TRUE)
                 [] h = "panic" ->
                      \* unwrap() panics: the task unwinds, its locals are dropped
                      /\ line' = l
                      /\ timeout' = timeout
                      /\ pc' = "panicked"
                      /\ chans' = Closed(chans, conn)
                      /\ conn' = 0
    /\ UNCHANGED <<op, pushes, conf, count, polls, buff, data, sent, s, result, ticks,
                   child>>

\* read_line may deliver any line, or fail
check_read == CheckRead(MonitorLines, TRUE)

Next ==
    \/ start_wg_go
    \/ config_wg_call
    \/ check_wg_connection_call
    \/ wait_path_exist
    \/ connect_uapi
    \/ config_write
    \/ config_flush
    \/ config_read
    \/ first_tick
    \/ tick
    \/ check_write
    \/ check_read

Spec == Init /\ [][Next]_vars

\* the steps of a client that only runs the monitor
MonitorNext ==
    \/ check_wg_connection_call
    \/ first_tick
    \/ tick
    \/ wait_path_exist
    \/ connect_uapi
    \/ check_write
    \/ check_read

\* the monitor as a task that is polled whenever it can go on: the runtime
\* delivers the ticks and the results of the awaited connects, writes and reads
MonitorFairSpec == Init /\ [][MonitorNext]_vars /\ WF_vars(MonitorNext)

\* ------------------------------------------------------------------- claims
\* this step is a read_line of the monitor that returned Ok
ReadOkStep == pc = "check_read" /\ steps' = Append(steps, Step("read", TRUE))

\* this step is a read_line of the monitor that returned Err
ReadErrStep == pc = "check_read" /\ steps' = Append(steps, Step("read", FALSE))

\* this step is a Conn::connect that failed
ConnectErrStep == pc = "connect" /\ steps' = Append(steps, Step("connect", FALSE))

\* the value of a last_handshake_time_sec line
HandshakeValue(l) == parse_i64(split_last(trim_end(l)))

\* the clock values an observation may have been made at (n = 0: clock not read)
ClockValues(n) == IF n = 0 THEN NowValues ELSE {n}

\* current time minus the timestamp is more than 300 seconds; a magnitude of
\* more than nine digits is older (negative) or later (positive) than any clock
AgeExceeds(p, t) ==
    IF Len(p.mag) > 9 THEN p.neg
    ELSE t - TimestampVal(p) * SubSec > IntervalSecs * SubSec

\* l reports a nonzero timestamp more than 300 seconds old
StaleLine(l, n) ==
    /\ starts_with(l, KEY_HANDSHAKE)
    /\ HandshakeValue(l).ok
    /\ HandshakeValue(l).mag # <<>>
    /\ \A t \in ClockValues(n) : AgeExceeds(HandshakeValue(l), t)

\* l reports a nonzero timestamp at most 300 seconds old at clock value n
FreshLine(l, n) ==
    /\ starts_with(l, KEY_HANDSHAKE)
    /\ HandshakeValue(l).ok
    /\ HandshakeValue(l).mag # <<>>
    /\ n # 0
    /\ ~AgeExceeds(HandshakeValue(l), n)

\* l reports the timestamp 0
ZeroLine(l) ==
    /\ starts_with(l, KEY_HANDSHAKE)
    /\ HandshakeValue(l).ok
    /\ HandshakeValue(l).mag = <<>>

\* l is a last_handshake_time_sec line whose value is no integer
ParseFailLine(l) ==
    /\ starts_with(l, KEY_HANDSHAKE)
    /\ ~HandshakeValue(l).ok

\* C1: a tick that reads a nonzero last_handshake_time_sec more than 300
\* seconds old sets timeout and ends the monitor, and after the monitor has
\* ended on a timeout no tick is awaited, no channel opened, no query sent.
C1_StaleTimesOut ==
    [][ /\ (ReadOkStep /\ StaleLine(line', now')) => (timeout' /\ pc' = "returned")
        /\ (pc = "returned" /\ timeout) => UNCHANGED <<ticks, chans, sent>> ]_vars

\* C2: a tick that reads last_handshake_time_sec=0 leaves timeout false and
\* the monitor goes on to await the next tick.
C2_ZeroStaysLive ==
    [][ (ReadOkStep /\ ZeroLine(line')) => (~timeout' /\ pc' = "tick") ]_vars

C2_Witness == pc = "tick" /\ ticks >= 2 /\ ZeroLine(line) /\ ~timeout

C4_ConnectErrTerminates ==
    /\ [][ /\ (op = "check_wg_connection" /\ ConnectErrStep) =>
                /\ pc' = "returned"
                /\ steps' = <<Step("connect", FALSE)>>
                /\ chans' = chans
                /\ conn' = 0
                /\ sent' = <<>>
           /\ pc = "returned" => UNCHANGED <<ticks, chans, sent, steps>> ]_vars
    /\ [](op = "check_wg_connection" =>
            Cardinality({i \in 1..Len(steps) : steps[i].step = "connect"}) <= 1)

C4_Witness ==
    /\ pc = "returned"
    /\ ~timeout
    /\ ticks >= 2
    /\ steps = <<Step("connect", FALSE)>>

\* C5: after a failed write of the get=1 query no read is made on that channel.
C5_NoReadAfterFailedWrite ==
    op = "check_wg_connection" =>
        \A i, j \in 1..Len(steps) :
            i < j => ~(steps[i] = Step("write", FALSE) /\ steps[j].step = "read")

\* C6: a tick that reads a nonzero last_handshake_time_sec whose elapsed time
\* is at most 300 seconds (a negative elapsed time included) neither ends nor
\* aborts the monitor, which goes on to await the next tick.
C6_FreshStaysLive ==
    [][ (ReadOkStep /\ FreshLine(line', now')) => (~timeout' /\ pc' = "tick") ]_vars

\* C7: a last_handshake_time_sec line whose value is no integer, and a blank
\* line read before any such line, leave timeout false, and the monitor goes
\* on to await the next tick.
C7_ParseFailIsNoOp ==
    [][ (ReadOkStep /\ (ParseFailLine(line') \/ line' = NL)) =>
            (~timeout' /\ pc' = "tick") ]_vars

C7_Witness == pc = "tick" /\ ticks >= 2 /\ ParseFailLine(line) /\ ~timeout

\* C8: whenever config_wg is about to read the response, the channel has
\* accepted the whole request buffer and the flush has succeeded.
C8_ReadAfterFullRequest ==
    pc = "config_read" =>
        /\ sent = buff
        /\ steps[Len(steps)] = Step("flush", TRUE)

\* x contains errno=0, character by character
HasErrno0(x) ==
    \E i \in 1..Len(x) :
        \A j \in 1..Len(ERRNO_OK) : i + j - 1 <= Len(x) /\ x[i + j - 1] = ERRNO_OK[j]

\* config_wg has read a response line and checked it
ErrnoChecked == steps # <<>> /\ steps[Len(steps)] = Step("errno_check", TRUE)

\* C9: config_wg returns Ok exactly when the line it read contains errno=0,
\* and otherwise an error whose message ends with that line.
C9_SuccessIffErrno0 ==
    /\ ErrnoChecked =>
         IF HasErrno0(s) THEN result = OkResult
         ELSE /\ result.kind = "UnexpectedEof"
              /\ Len(result.msg) > Len(s)
              /\ SubSeq(result.msg, Len(result.msg) - Len(s) + 1, Len(result.msg)) = s
    /\ result = OkResult => (ErrnoChecked /\ HasErrno0(s))

C9_Witness == ErrnoChecked /\ s = <<>> /\ result.kind = "UnexpectedEof" /\ pc = "idle"

\* the error a failed step of config_wg returns
StepErrKind(name) ==
    CASE name = "connect" -> "ConnectError"
      [] name = "write"   -> "WriteError"
      [] name = "flush"   -> "FlushError"
      [] name = "read"    -> "ReadError"
      [] OTHER            -> "none"

\* C10: in config_wg a failed connect, write, flush or read is the last step
\* of the push and its error is the result; after a failed connect no byte
\* has been written.
C10_ErrorEndsPush ==
    op # "check_wg_connection" =>
        /\ \A i \in 1..Len(steps) :
              ~steps[i].ok =>
                  /\ i = Len(steps)
                  /\ pc = "idle"
                  /\ result = ErrResult(StepErrKind(steps[i].step), <<>>)
        /\ (steps # <<>> /\ steps[1] = Step("connect", FALSE)) =>
              /\ sent = <<>>
              /\ buff = <<>>
              /\ conn = 0
              /\ \A i \in 1..Len(chans) : ~chans[i].open

C10_Witness ==
    /\ pc = "idle"
    /\ result = ErrResult("FlushError", <<>>)
    /\ steps[Len(steps)] = Step("flush", FALSE)
    /\ sent = buff

\* ------------------------------------------------------ the request, by line
\* the position of the first line feed of x, Len(x) + 1 if it has none
FirstNL(x) ==
    IF \E i \in 1..Len(x) : x[i] = "\n"
    THEN CHOOSE i \in 1..Len(x) : x[i] = "\n" /\ \A j \in 1..(i - 1) : x[j] # "\n"
    ELSE Len(x) + 1

\* the lines of x, each without its line feed
RECURSIVE SplitLines(_)
SplitLines(x) ==
    IF x = <<>> THEN <<>>
    ELSE <<SubSeq(x, 1, FirstNL(x) - 1)>> \o SplitLines(SubSeq(x, FirstNL(x) + 1, Len(x)))

\* what follows the key in a key=value line
ValueOf(l, key) == SubSeq(l, Len(key) + 1, Len(l))

\* config_wg has built its request
RequestBuilt == op = "config_wg" /\ buff # <<>>

\* C11: the request is determined by the configuration, ends with a line feed,
\* and its lines are, in order: set=1, private_key, replace_peers=true,
\* public_key, replace_allowed_ips=true, endpoint, the keepalive line, one
\* allowed_ip line per route, address=<address>/<mask>, mtu, up=true, one
\* route line per route, and one blank line; the values of the route lines
\* are those of the allowed_ip lines, in the same order.
C11_RequestLineOrder ==
    RequestBuilt =>
        LET ls == SplitLines(buff)
            n  == Len(conf.route)
        IN  /\ buff = BuildBuff(conf)
            /\ buff[Len(buff)] = "\n"
            /\ Len(ls) = 11 + 2 * n
            /\ ls[1] = trim_end(L_set)
            /\ starts_with(ls[2], L_private_key)
            /\ ls[3] = trim_end(L_replace_peers)
            /\ starts_with(ls[4], L_public_key)
            /\ ls[5] = trim_end(L_replace_allowed_ips)
            /\ ls[6] = L_endpoint \o conf.peer_address
            /\ ls[7] = trim_end(L_keepalive)
            /\ \A i \in 1..n : starts_with(ls[7 + i], L_allowed_ip)
            /\ ls[8 + n] = L_address \o conf.address \o <<"/">> \o ToDecimal(conf.mask)
            /\ ls[9 + n] = L_mtu \o ToDecimal(conf.mtu)
            /\ ls[10 + n] = trim_end(L_up)
            /\ \A i \in 1..n :
                  /\ starts_with(ls[10 + n + i], L_route)
                  /\ ValueOf(ls[10 + n + i], L_route) = ValueOf(ls[7 + i], L_allowed_ip)
            /\ ls[11 + 2 * n] = <<>>

C11_Witness == RequestBuilt /\ Len(conf.route) = 3 /\ pc = "config_read"

\* the route has a '/' among its characters
HasSlash(r) == \E k \in 1..Len(r) : r[k] = "/"

\* C12: each route is emitted, in its allowed_ip line and in its route line,
\* with /32 appended exactly when it has no '/', and unchanged otherwise;
\* normalizing an emitted value changes nothing.
C12_RouteNormalized ==
    RequestBuilt =>
        LET ls == SplitLines(buff)
            n  == Len(conf.route)
        IN  \A i \in 1..n :
              LET a == ValueOf(ls[7 + i], L_allowed_ip)
                  r == ValueOf(ls[10 + n + i], L_route)
              IN  /\ a = (IF HasSlash(conf.route[i]) THEN conf.route[i]
                                                     ELSE conf.route[i] \o SLASH32)
                  /\ r = a
                  /\ (a = conf.route[i] \o SLASH32) <=> ~HasSlash(conf.route[i])
                  /\ NormalizedRoute(a) = a

C12_Witness ==
    /\ RequestBuilt
    /\ \E i, j \in 1..Len(conf.route) : HasSlash(conf.route[i]) /\ ~HasSlash(conf.route[j])
    /\ pc = "config_flush"

\* ------------------------------------------------------------- connect_uapi
\* the number of Conn::connect calls of the running exchange
NConnects(st) == Cardinality({i \in 1..Len(st) : st[i].step = "connect"})

\* C13: connect_uapi polls the path at most 3 times and stops at the first
\* poll that finds it (count goes down by one with each poll that does not, so
\* the wait ends); it then calls Conn::connect once, after a poll that found
\* the path or after 3 polls that did not, and a failed connect is what the
\* caller gets: config_wg returns the error, check_wg_connection returns.
C13_BoundedPollThenOneConnect ==
    /\ Len(polls) <= PollBudget
    /\ \A i \in 1..Len(polls) : polls[i] => i = Len(polls)
    /\ pc = "wait_path_exist" =>
          /\ count = PollBudget - Len(polls)
          /\ count > 0
          /\ \A i \in 1..Len(polls) : ~polls[i]
          /\ NConnects(steps) = 0
          /\ ENABLED wait_path_exist
    /\ pc = "connect" =>
          /\ polls # <<>>
          /\ polls[Len(polls)] \/ (Len(polls) = PollBudget /\ count = 0)
          /\ NConnects(steps) = 0
    /\ NConnects(steps) <= 1
    /\ pc \in {"config_write", "config_flush", "config_read", "check_write", "check_read"}
          => NConnects(steps) = 1
    /\ (steps # <<>> /\ steps[Len(steps)] = Step("connect", FALSE)) =>
          /\ Len(steps) = 1
          /\ conn = 0
          /\ op = "config_wg" => (pc = "idle" /\ result = ErrResult("ConnectError", <<>>))
          /\ op = "check_wg_connection" => pc = "returned"

C13_Witness ==
    /\ pc = "connect"
    /\ polls = <<FALSE, FALSE, FALSE>>
    /\ count = 0

\* ----------------------------------------------------------------- channels
\* x is the beginning of y
IsPrefix(x, y) == Len(x) <= Len(y) /\ x = SubSeq(y, 1, Len(x))

\* the running exchange is past connect_uapi and talks to the subprocess
Talking == pc \in {"config_write", "config_flush", "config_read", "check_write", "check_read"}

\* C14: no channel is used for two exchanges: an exchange that talks to the
\* subprocess holds the channel it opened itself, the newest one; a channel
\* has accepted bytes of at most one request, and these are the beginning of
\* one set=1 message or of one get=1 query; the only channel that can be
\* open is the one the running exchange holds.
C14_ChannelPerExchange ==
    /\ \A i \in 1..Len(chans) :
          /\ chans[i].requests <= 1
          /\ chans[i].open => i = conn
    /\ conn # 0 =>
          /\ conn = Len(chans)
          /\ chans[conn].open
          /\ chans[conn].owner = op
          /\ chans[conn].requests = (IF sent = <<>> THEN 0 ELSE 1)
    /\ Talking =>
          /\ conn # 0
          /\ steps[1] = Step("connect", TRUE)
          /\ NConnects(steps) = 1
          /\ IF op = "config_wg" THEN IsPrefix(sent, buff) ELSE IsPrefix(sent, GET_QUERY)

C14_Witness ==
    /\ Len(chans) = 2
    /\ chans[1] = [owner |-> "config_wg", open |-> FALSE, requests |-> 1]
    /\ chans[2] = [owner |-> "check_wg_connection", open |-> TRUE, requests |-> 1]
    /\ pc = "check_read"

\* ----------------------------------------------------------- the first tick
\* C16: until the ticker has ticked twice the monitor has done nothing but
\* await ticks: no poll, no connection attempt, no channel of its own, no
\* byte written; the first tick leads to the await of the second one.
C16_NoCheckBeforeSecondTick ==
    op = "check_wg_connection" =>
        /\ ticks < 2 =>
              /\ pc \in {"first_tick", "tick"}
              /\ pc = "first_tick" <=> ticks = 0
              /\ steps = <<>>
              /\ polls = <<>>
              /\ sent = <<>>
              /\ conn = 0
              /\ \A i \in 1..Len(chans) : chans[i].owner # "check_wg_connection"
        /\ (pc \in {"wait_path_exist", "connect"} \/ Talking) => ticks >= 2

C16_Witness ==
    /\ op = "check_wg_connection"
    /\ ticks = 2
    /\ pc = "check_write"
    /\ Len(chans) = 1

\* -------------------------------------------------------------- start_wg_go
\* the environment variables the launcher sets under key k
EnvValues(k) == {e[2] : e \in {x \in child.envs : x[1] = k}}

\* C17: the command start_wg_go builds carries CORPLINK_PROTOCOL_VERSION (as
\* v2) exactly when protocol_version is "v2" and CORPLINK_NETWORK_TYPE (as tcp)
\* exactly when protocol is 0xff; stdout and stderr are null exactly when
\* with_log is false; spawn() is called once, whatever it returns.
C17_LaunchEnvAndStdio ==
    child.called =>
        /\ EnvValues(ENV_KEY_PROTOCOL_VERSION) =
              (IF child.protocol_version = "v2" THEN {"v2"} ELSE {})
        /\ EnvValues(ENV_KEY_NETWORK_TYPE) =
              (IF child.protocol = 255 THEN {"tcp"} ELSE {})
        /\ \A e \in child.envs : e[1] \in {ENV_KEY_PROTOCOL_VERSION, ENV_KEY_NETWORK_TYPE}
        /\ child.null = (IF child.with_log THEN {} ELSE {"stdout", "stderr"})
        /\ child.spawns = 1
        /\ child.ret \in {"Ok", "Err"}

C17_Witness ==
    /\ child.called
    /\ child.protocol_version = "v2"
    /\ child.protocol = 255
    /\ ~child.with_log
    /\ child.ret = "Err"
    /\ pushes = 1

\* ----------------------------------------------------------- the write loop
\* a write of the running push accepted no byte
ZeroWrite == \E i \in 1..Len(steps) : steps[i].step = "write0"

\* C19: in the write loop of config_wg the bytes accepted so far followed by
\* the bytes still to write are the request buffer; while every write has
\* accepted at least one byte, the loop is still running exactly as long as
\* bytes remain, and once it has ended the channel has accepted the buffer.
C19_PartialWritesSendBuffer ==
    RequestBuilt =>
        /\ sent \o data = buff
        /\ pc = "config_write" => data # <<>>
        /\ (~ZeroWrite /\ pc \in {"config_flush", "config_read"}) =>
              (sent = buff /\ data = <<>>)

C19_Witness ==
    /\ RequestBuilt
    /\ pc = "config_write"
    /\ Len(sent) = Chunk + 1
    /\ ~ZeroWrite

\* ------------------------------------------------------------ the read loop
\* C18: the response-reading loop of a tick ends, whatever the stream
\* delivers: a tick that is reading lines eventually is not any more.
C18_ReadLoopTerminates == (pc = "check_read") ~> (pc # "check_read")

\* C15: the channel an exchange holds is closed in the end, whichever way the
\* exchange goes, the stream ending before a terminating line included.
C15_ChannelEventuallyClosed == (conn # 0) ~> (conn = 0)

\* ------------------------------------------- the monitor of a stale tunnel
\* the responses of a subprocess whose last handshake is stale: lines of
\* other keys, and a last_handshake_time_sec line with a nonzero timestamp
\* more than 300 seconds before every clock value
StaleResponseLines ==
    {l \in MonitorLines : StaleLine(l, 0)} \cup {<<"m","t","u","=","1","\n">>}

\* every connection attempt of a tick succeeds
connect_uapi_ok == ConnectUapi({TRUE})

\* every response read by a tick is one of a stale tunnel, and arrives
check_read_stale == CheckRead(StaleResponseLines, FALSE)

StaleNext ==
    \/ check_wg_connection_call
    \/ first_tick
    \/ tick
    \/ wait_path_exist
    \/ connect_uapi_ok
    \/ check_write
    \/ check_read_stale

\* the monitor of a subprocess that accepts every connection and always
\* reports a stale handshake
StaleSpec == Init /\ [][StaleNext]_vars

\* the monitor is awaiting a tick, or the result of a poll, a connect, a write
\* or a read
Awaiting ==
    pc \in {"first_tick", "tick", "wait_path_exist", "connect", "check_write", "check_read"}

\* C20: when ticks are delivered, every tick connects and every response
\* reports a stale handshake, check_wg_connection terminates: at every moment
\* the monitor is awaiting something that fair scheduling delivers (and the
\* first stale line read ends the loop), or it has returned.
C20_StaleMonitorTerminates ==
    op = "check_wg_connection" => (Awaiting \/ pc = "returned")

====
